---- MODULE Spec2Model ----
(***************************************************************************)
(* Model of the Lox front end: the nom-based scanner of src/src/tokens.rs  *)
(* (driven by Lox::run of src/src/main.rs) and the expression tree of      *)
(* src/src/ast.rs with its print / eval contract.                          *)
(*                                                                         *)
(* Text is modelled as a sequence of one-character strings, so that the    *)
(* parsers consume, slice and rebuild it the way the code does.            *)
(***************************************************************************)
EXTENDS Integers, Sequences, FiniteSets

VARIABLES input, tokens, remaining, outcome, pc, expr, value, text

vars == <<input, tokens, remaining, outcome, pc, expr, value, text>>

(***************************************************************************)
(* Bounds of the model.                                                    *)
(***************************************************************************)
\* longest input line drawn exhaustively from Alphabet
MaxLen == 3
\* nesting depth of the expression trees drawn exhaustively
MaxDepth == 1

(***************************************************************************)
(* Characters.                                                             *)
(***************************************************************************)
Lower == {"a", "b", "c", "d", "e", "f", "g", "h", "i", "j", "k", "l", "m",
          "n", "o", "p", "q", "r", "s", "t", "u", "v", "w", "x", "y", "z"}
Upper == {"A", "B", "C", "D", "E", "F", "G", "H", "I", "J", "K", "L", "M",
          "N", "O", "P", "Q", "R", "S", "T", "U", "V", "W", "X", "Y", "Z"}
\* nom AsChar::is_alpha
Alpha == Lower \cup Upper
\* nom AsChar::is_dec_digit
Digit == {"0", "1", "2", "3", "4", "5", "6", "7", "8", "9"}
\* nom AsChar::is_alphanum
AlphaNum == Alpha \cup Digit
\* nom multispace0: space, tab, carriage return, line feed
Space == {" ", "\t", "\r", "\n"}
Quote == "\""
Newline == "\n"

\* The characters input lines are drawn from.  The exponent markers e / E
\* are left out, so the exponent part of nom's float never starts.
Alphabet == {"o", "r", "x", "1", "+", "-", "@", Quote, "/", Newline, " ",
             "!", "=", "<"}

AllChars == AlphaNum \cup Space \cup Alphabet \cup
            {"(", ")", "{", "}", ",", ".", ";", "*", ">", "#"}

(***************************************************************************)
(* Slices of text.                                                         *)
(***************************************************************************)
Take(s, n) == SubSeq(s, 1, n)
Drop(s, n) == SubSeq(s, n + 1, Len(s))

\* length of the longest prefix of s made of characters of set S
SpanLen(s, S) ==
    IF \A i \in 1..Len(s) : s[i] \in S
    THEN Len(s)
    ELSE (CHOOSE i \in 1..Len(s) :
             s[i] \notin S /\ \A j \in 1..(i - 1) : s[j] \in S) - 1

StartsWith(s, t) == Len(s) >= Len(t) /\ Take(s, Len(t)) = t

(***************************************************************************)
(* nom parser results: Ok((rest, out)) or Err(Error).                      *)
(***************************************************************************)
Ok(rest, out) == [ok |-> TRUE, rest |-> rest, out |-> out]
Err == [ok |-> FALSE]

\* nom::bytes::complete::tag
tag(t, s) == IF StartsWith(s, t) THEN Ok(Drop(s, Len(t)), t) ELSE Err

\* nom split_at_position_complete: the first n characters, possibly none
take0(s, n) == Ok(Drop(s, n), Take(s, n))

\* nom split_at_position1_complete: the first n characters, an error if none
take1(s, n) == IF n = 0 THEN Err ELSE Ok(Drop(s, n), Take(s, n))

\* nom::character::complete::alpha1
alpha1(s) == take1(s, SpanLen(s, Alpha))

\* nom::character::complete::alphanumeric0
alphanumeric0(s) == take0(s, SpanLen(s, AlphaNum))

\* nom::character::complete::multispace0
multispace0(s) == take0(s, SpanLen(s, Space))

\* nom::bytes::complete::is_not: the longest non-empty prefix holding no
\* character of set S; an empty match is an error
is_not(S, s) == take1(s, SpanLen(s, AllChars \ S))

\* delimited, after its second and third parser: the output of the second
delimited_close(b, c) == IF ~c.ok THEN Err ELSE Ok(c.rest, b.out)
delimited_body(b, close) ==
    IF ~b.ok THEN Err ELSE delimited_close(b, tag(close, b.rest))
delimited_open(a, S, close) ==
    IF ~a.ok THEN Err ELSE delimited_body(is_not(S, a.rest), close)

\* delimited(tag(open), is_not(S), tag(close))
delimited(open, S, close, s) == delimited_open(tag(open, s), S, close)

(***************************************************************************)
(* Tokens.                                                                 *)
(***************************************************************************)
Token(token_type, lexeme, literal) ==
    [token_type |-> token_type, lexeme |-> lexeme, literal |-> literal,
     line |-> 0]

\* the match of keyword(): lexeme -> TokenType
KeywordTable ==
    { <<<<"a", "n", "d">>, "And">>,
      <<<<"c", "l", "a", "s", "s">>, "Class">>,
      <<<<"e", "l", "s", "e">>, "Else">>,
      <<<<"f", "a", "l", "s", "e">>, "False">>,
      <<<<"f", "u", "n">>, "Fun">>,
      <<<<"f", "o", "r">>, "For">>,
      <<<<"i", "f">>, "If">>,
      <<<<"n", "i", "l">>, "Nil">>,
      <<<<"o", "r">>, "Or">>,
      <<<<"p", "r", "i", "n", "t">>, "Print">>,
      <<<<"r", "e", "t", "u", "r", "n">>, "Return">>,
      <<<<"s", "u", "p", "e", "r">>, "Super">>,
      <<<<"t", "h", "i", "s">>, "This">>,
      <<<<"t", "r", "u", "e">>, "True">>,
      <<<<"v", "a", "r">>, "Var">>,
      <<<<"w", "h", "i", "l", "e">>, "While">> }

KeywordLexemes == {k[1] : k \in KeywordTable}
KeywordTypes == {k[2] : k \in KeywordTable}
KeywordType(lexeme) == (CHOOSE k \in KeywordTable : k[1] = lexeme)[2]

\* the match of keyword() on the run of letters alpha1 gave
keyword_match(a) ==
    IF ~a.ok THEN Err
    ELSE IF a.out \notin KeywordLexemes THEN Err
    ELSE Ok(a.rest, Token(KeywordType(a.out), a.out, <<>>))

\* keyword(): alpha1, then the run of letters must be a keyword
keyword(s) == keyword_match(alpha1(s))

\* the token of identifier(): start.to_string() + rest
identifier_token(start, b) == Ok(b.rest, Token("Identifier", start \o b.out, <<>>))
identifier_rest(a) ==
    IF ~a.ok THEN Err ELSE identifier_token(a.out, alphanumeric0(a.rest))

\* identifier(): (alpha1, alphanumeric0)
identifier(s) == identifier_rest(alpha1(s))

(***************************************************************************)
(* number(): nom's float, then the f32 printed back with to_string.        *)
(*                                                                         *)
(* recognize_float is                                                      *)
(*   opt(+|-) , alt((digit1, opt(('.', opt(digit1)))), ('.', digit1)) ,    *)
(*   opt((e|E, opt(+|-), cut(digit1)))                                     *)
(* The exponent part is not modelled: no input of the model has e or E     *)
(* right after a mantissa.  The alternatives nan / inf / infinity of       *)
(* float start with a letter, and identifier() is tried before number(),   *)
(* so scan_line never reaches them.                                        *)
(***************************************************************************)
\* ('.', digit1) after the sign: n3 digits follow the dot
float_dot_digits(s, sgn, n3) == IF n3 = 0 THEN Err ELSE take0(s, sgn + 1 + n3)

\* (digit1, opt(('.', opt(digit1)))) after the sign: n1 digits lead
float_digits(s, sgn, n1) ==
    IF n1 > 0
    THEN IF StartsWith(Drop(s, sgn + n1), <<".">>)
         THEN take0(s, sgn + n1 + 1 + SpanLen(Drop(s, sgn + n1 + 1), Digit))
         ELSE take0(s, sgn + n1)
    ELSE IF StartsWith(Drop(s, sgn), <<".">>)
         THEN float_dot_digits(s, sgn, SpanLen(Drop(s, sgn + 1), Digit))
         ELSE Err

\* the mantissa after a sign of sgn characters
float_mantissa(s, sgn) == float_digits(s, sgn, SpanLen(Drop(s, sgn), Digit))

recognize_float(s) ==
    float_mantissa(s, IF s # <<>> /\ s[1] \in {"+", "-"} THEN 1 ELSE 0)

\* digits with the leading zeros removed, "0" when nothing is left
StripLeadingZeros(d) ==
    IF \A i \in 1..Len(d) : d[i] = "0" THEN <<"0">> ELSE Drop(d, SpanLen(d, {"0"}))

\* digits with the trailing zeros removed
StripTrailingZeros(d) ==
    IF \A i \in 1..Len(d) : d[i] = "0" THEN <<>>
    ELSE Take(d, CHOOSE i \in 1..Len(d) :
                     d[i] # "0" /\ \A j \in (i + 1)..Len(d) : d[j] = "0")

\* the integer digits, and the fraction digits after a '.' when some are left
DecimalParts(int, frac) == int \o (IF frac = <<>> THEN <<>> ELSE <<".">> \o frac)

\* an unsigned decimal text in its shortest form
DecimalText(t, n1) ==
    DecimalParts(StripLeadingZeros(Take(t, n1)),
                 IF n1 < Len(t) THEN StripTrailingZeros(Drop(t, n1 + 1)) ELSE <<>>)

Unsigned(lit) == IF lit[1] \in {"+", "-"} THEN Drop(lit, 1) ELSE lit

\* str::parse::<f32> of a recognised float followed by f32::to_string: the
\* shortest decimal text of the value (a '+' sign, leading zeros of the
\* integer part and trailing zeros of the fraction disappear, a '-' sign
\* stays).  Exact for literals of at most 6 significant digits.
FloatToString(lit) ==
    (IF lit[1] = "-" THEN <<"-">> ELSE <<>>) \o
    DecimalText(Unsigned(lit), SpanLen(Unsigned(lit), Digit))

\* the token of number(): lexeme and literal are both lexeme.to_string()
number_token(rest, lexeme) == Ok(rest, Token("Number", lexeme, lexeme))
number_float(f) ==
    IF ~f.ok THEN Err ELSE number_token(f.rest, FloatToString(f.out))

\* number()
number(s) == number_float(recognize_float(s))

string_token(d) == IF ~d.ok THEN Err ELSE Ok(d.rest, Token("String", d.out, d.out))

\* string(): delimited(tag("\""), is_not("\""), tag("\""))
string(s) == string_token(delimited(<<Quote>>, {Quote}, <<Quote>>, s))

\* the tags of two_char_token() in the order of its alt, with its match
TwoCharTable ==
    << <<<<"!", "=">>, "BangEqual">>,
       <<<<"=", "=">>, "EqualEqual">>,
       <<<<"<", "=">>, "LessEqual">>,
       <<<<">", "=">>, "GreaterEqual">> >>

\* the tags of single_char_token() in the order of its alt, with its match
SingleCharTable ==
    << <<<<"(">>, "LeftParen">>,
       <<<<")">>, "RightParen">>,
       <<<<"{">>, "LeftBrace">>,
       <<<<"}">>, "RightBrace">>,
       <<<<",">>, "Comma">>,
       <<<<".">>, "Dot">>,
       <<<<"-">>, "Minus">>,
       <<<<"+">>, "Plus">>,
       <<<<";">>, "Semicolon">>,
       <<<<"/">>, "Slash">>,
       <<<<"*">>, "Star">>,
       <<<<"=">>, "Equal">> >>

\* the token of the tag an alt matched
TagToken(entry, s) == Ok(Drop(s, Len(entry[1])), Token(entry[2], entry[1], <<>>))

\* alt over the tags of a table, from its i-th tag on: the first that matches
RECURSIVE TableToken(_, _, _)
TableToken(table, i, s) ==
    IF i > Len(table) THEN Err
    ELSE IF StartsWith(s, table[i][1]) THEN TagToken(table[i], s)
    ELSE TableToken(table, i + 1, s)

\* two_char_token()
two_char_token(s) == TableToken(TwoCharTable, 1, s)

\* single_char_token()
single_char_token(s) == TableToken(SingleCharTable, 1, s)

\* the parsers handed to ws_separated!, in the order alt tries them
Parsers == <<"keyword", "identifier", "number", "string", "two_char_token",
             "single_char_token">>

\* the parser of that name applied to s
parse(inner, s) ==
    CASE inner = "keyword"           -> keyword(s)
      [] inner = "identifier"        -> identifier(s)
      [] inner = "number"            -> number(s)
      [] inner = "string"            -> string(s)
      [] inner = "two_char_token"    -> two_char_token(s)
      [] inner = "single_char_token" -> single_char_token(s)

\* delimited(multispace0, inner, multispace0) after inner: the white space
\* behind the token is consumed
ws_trailing(b) == IF ~b.ok THEN Err ELSE Ok(multispace0(b.rest).rest, b.out)

\* ws(inner): delimited(multispace0, inner, multispace0)
ws(inner, s) == ws_trailing(parse(inner, multispace0(s).rest))

\* alt(ws_separated!((keyword, identifier, number, string, two_char_token,
\* single_char_token))) from its i-th parser on: the first that succeeds
RECURSIVE alt(_, _)
RECURSIVE alt_next(_, _, _)
alt(i, s) == IF i > Len(Parsers) THEN Err ELSE alt_next(i, s, ws(Parsers[i], s))
alt_next(i, s, r) == IF r.ok THEN r ELSE alt(i + 1, s)

any_token(s) == alt(1, s)

\* many0: apply the parser until it fails; the tokens so far and the text
\* left are the result.  A success that consumes nothing is an error.
RECURSIVE many0(_, _)
RECURSIVE many0_next(_, _, _)
many0(s, acc) == many0_next(s, acc, any_token(s))
many0_next(s, acc, r) ==
    IF ~r.ok THEN Ok(s, acc)
    ELSE IF Len(r.rest) = Len(s) THEN Err
    ELSE many0(r.rest, Append(acc, r.out))

\* comment(): delimited(tag("//"), is_not("\n"), tag("\n"))
comment(s) == delimited(<<"/", "/">>, {Newline}, <<Newline>>, s)

EofToken == Token("Eof", <<>>, <<>>)

\* what scan_line returns, and the text it leaves unread
Scanned(outcome_, tokens_, remaining_) ==
    [outcome |-> outcome_, tokens |-> tokens_, remaining |-> remaining_]

\* scan_line() past the comment check: many0(...).unwrap(), then the Eof
scan_tokens(s, m) ==
    IF ~m.ok THEN Scanned("panic", <<>>, s)
    ELSE Scanned("returned", Append(m.out, EofToken), m.rest)

\* scan_line() after comment(input): a comment line returns no token
scan_checked(s, c) ==
    IF c.ok THEN Scanned("returned", <<>>, c.rest)
    ELSE scan_tokens(s, many0(s, <<>>))

\* scan_line()
scan_line(s) == scan_checked(s, comment(s))

(***************************************************************************)
(* The input lines.                                                        *)
(***************************************************************************)
Samples ==
    {
      \* lines of the tests of tokens.rs
      <<"v", "a", "r", " ", "x", " ", "<", "=", " ", "1", "0", ";">>,
      <<"v", "a", "r", " ", "a", "n", "d", "x", " ", "=", " ", "1", "0", ";">>,
      <<"/", "/", " ", "T", "h", "i", "s", " ", "i", "s", " ", "a", " ", "c", "o", "m", "m", "e", "n", "t", Newline>>,
      <<"a", "n", "d">>,
      <<"i", "n", "v", "a", "l", "i", "d">>,
      <<"1", "2", "3", ".", "4", "5">>,
      <<"m", "y", "V", "a", "r", "i", "a", "b", "l", "e", "1", "2", "3">>,
      \* lines of the specification's examples
      <<"v", "a", "r", " ", "x", " ", "=", " ", "1", "0", ";">>,
      <<"a", "n", "d", "f", "u", "n", "c", " ", "f", "o", "r", ";", " ", " ", "/", "/", " ", "c", "o", "m", "m", "e", "n", "t">>,
      <<Quote, "a", "b", "c">>,
      \* further lines: keywords run on with digits, signs, comments, operators
      <<"a", "n", "d", "1">>,
      <<"f", "o", "r", "2">>,
      <<"a", "n", "d", "x">>,
      <<"a", " ", "@", " ", "b">>,
      <<"v", "a", "r", " ", "s", " ", "=", " ", Quote, "a", "b", "c">>,
      <<"1", " ", "-", " ", "2">>,
      <<"1", " ", "-", "2">>,
      <<"x", " ", "=", " ", "-", "1", ";">>,
      <<"/", "/", "x", Newline, "x">>,
      <<"x", " ", "/", "/", "x", Newline, "x">>,
      <<"x", " ", "/", "/", " ", "x">>,
      <<">">>,
      <<">", "=">>,
      <<"1", " ", ">", " ", "2">>,
      <<"1", " ", ">", "=", " ", "2">>,
      <<"1", " ", "<", " ", "2">>,
      <<"x", " ", "!", "=", " ", "1">>,
      <<"!", "x">>,
      <<"x", " ", "=", "=", " ", "1">>,
      <<"v", "a", "r", "\t", "x", " ", "=", " ", "1", "0", ";">>,
      <<Quote, "a", " ", "b", Quote, " ", "+", " ", "x">>,
      <<"1", ".", "5", "0">>,
      <<"(", "1", "+", "2", ")", "*", "x">>
    }

\* every text of at most MaxLen characters of Alphabet, and the samples
Inputs == Samples \cup UNION {[1..n -> Alphabet] : n \in 0..MaxLen}

(***************************************************************************)
(* The scanner run: Lox::run scans its input and prints every token.       *)
(***************************************************************************)
NoExpr == [kind |-> "none"]
NoValue == [kind |-> "none"]
NoText == [ok |-> TRUE, text |-> <<>>]

Init ==
    /\ input \in Inputs
    /\ tokens = <<>>
    /\ remaining = input
    /\ outcome = "none"
    /\ pc = "ready"
    /\ expr = NoExpr
    /\ value = NoValue
    /\ text = NoText

\* Lox::run: tokens = scan_line(input); the unwrap inside aborts the run
\* when many0 fails
run ==
    /\ pc = "ready"
    /\ LET r == scan_line(input)
       IN  /\ tokens' = r.tokens
           /\ remaining' = r.remaining
           /\ outcome' = r.outcome
    /\ pc' = "done"
    /\ UNCHANGED <<input, expr, value, text>>

Next == run

Spec == Init /\ [][Next]_vars

(***************************************************************************)
(* Vocabulary of the scanner's contract.                                   *)
(***************************************************************************)
TypesOf(toks) == [i \in 1..Len(toks) |-> toks[i].token_type]
LexemesOf(toks) == [i \in 1..Len(toks) |-> toks[i].lexeme]
NotEof(t) == t.token_type # "Eof"
WithoutEof(toks) == SelectSeq(toks, NotEof)

\* [a-zA-Z][a-zA-Z0-9]*
IsWord(s) == s # <<>> /\ s[1] \in Alpha /\ \A i \in 1..Len(s) : s[i] \in AlphaNum

\* an unsigned decimal literal: digits, or digits '.' digits
IsNumber(s) ==
    LET n1 == SpanLen(s, Digit)
    IN  /\ n1 > 0
        /\ \/ n1 = Len(s)
           \/ /\ n1 + 1 < Len(s)
              /\ s[n1 + 1] = "."
              /\ \A i \in (n1 + 2)..Len(s) : s[i] \in Digit

\* a string literal free of white space: '"', characters, '"'
IsString(s) ==
    /\ Len(s) >= 3
    /\ s[1] = Quote /\ s[Len(s)] = Quote
    /\ \A i \in 2..(Len(s) - 1) : s[i] \notin Space \cup {Quote}

\* the punctuation and operator lexemes of the Token data model
OperatorTable ==
    { <<<<"(">>, "LeftParen">>, <<<<")">>, "RightParen">>,
      <<<<"{">>, "LeftBrace">>, <<<<"}">>, "RightBrace">>,
      <<<<",">>, "Comma">>, <<<<".">>, "Dot">>, <<<<"-">>, "Minus">>,
      <<<<"+">>, "Plus">>, <<<<";">>, "Semicolon">>, <<<<"/">>, "Slash">>,
      <<<<"*">>, "Star">>,
      <<<<"!">>, "Bang">>, <<<<"!", "=">>, "BangEqual">>,
      <<<<"=">>, "Equal">>, <<<<"=", "=">>, "EqualEqual">>,
      <<<<">">>, "Greater">>, <<<<">", "=">>, "GreaterEqual">>,
      <<<<"<">>, "Less">>, <<<<"<", "=">>, "LessEqual">> }

OperatorLexemes == {o[1] : o \in OperatorTable}
OperatorType(lexeme) == (CHOOSE o \in OperatorTable : o[1] = lexeme)[2]

\* the one-or-two-character operators
ComparisonLexemes ==
    { <<"!">>, <<"!", "=">>, <<"=">>, <<"=", "=">>,
      <<">">>, <<">", "=">>, <<"<">>, <<"<", "=">> }

WellFormedLexeme(s) ==
    IsWord(s) \/ IsNumber(s) \/ IsString(s) \/ s \in OperatorLexemes

\* the token variant the contract gives a well-formed lexeme
ExpectedType(s) ==
    IF s \in KeywordLexemes THEN KeywordType(s)
    ELSE IF IsWord(s) THEN "Identifier"
    ELSE IF IsNumber(s) THEN "Number"
    ELSE IF IsString(s) THEN "String"
    ELSE OperatorType(s)

\* s without its leading and trailing white space
Trim(s) ==
    LET inner == {i \in 1..Len(s) : s[i] \notin Space}
    IN  IF inner = {} THEN <<>>
        ELSE SubSeq(s, CHOOSE i \in inner : \A j \in inner : i <= j,
                       CHOOSE i \in inner : \A j \in inner : j <= i)

\* the pieces of s between runs of spaces and tabs
RECURSIVE Split(_)
Split(s) ==
    LET t == Drop(s, SpanLen(s, {" ", "\t"}))
        n == SpanLen(t, AllChars \ {" ", "\t"})
    IN  IF t = <<>> THEN <<>> ELSE <<Take(t, n)>> \o Split(Drop(t, n))

\* a line made of well-formed lexemes separated by spaces / tabs
LexemeLine(s) ==
    /\ Split(s) # <<>>
    /\ \A i \in 1..Len(Split(s)) : WellFormedLexeme(Split(s)[i])

ExpectedTypes(s) == [i \in 1..Len(Split(s)) |-> ExpectedType(Split(s)[i])]

\* no token rule matches the text left, which is more than white space
Stuck(s) == multispace0(s).rest # <<>> /\ ~any_token(s).ok

\* positions where s holds "//"
CommentStarts(s) == {i \in 1..(Len(s) - 1) : s[i] = "/" /\ s[i + 1] = "/"}

(***************************************************************************)
(* The scanner's contract, claim by claim.                                 *)
(***************************************************************************)

\* C1: keyword matching is whole-token.  An input that is one run
\* [a-zA-Z][a-zA-Z0-9]* scans to exactly one token for the whole run: the
\* keyword token when the run is an entry of the keyword table, otherwise an
\* Identifier carrying the run; never a keyword for a proper prefix of it
\* (andx, and1, for2, or1).
C1_KeywordWholeToken ==
    (pc = "done" /\ IsWord(input)) =>
        /\ outcome = "returned"
        /\ TypesOf(WithoutEof(tokens)) = <<ExpectedType(input)>>
        /\ LexemesOf(WithoutEof(tokens)) = <<input>>

\* C2: when no token rule matches a non-empty remaining input, scan reports
\* a lexical error; it returns a token sequence only when the whole input
\* was consumed, never a truncated sequence with the rest discarded.
C2_UnrecognizedIsError ==
    pc = "done" =>
        /\ Stuck(remaining) => outcome = "error"
        /\ outcome = "returned" => multispace0(remaining).rest = <<>>

\* an input with one '"' only, not preceded by a comment start
UnterminatedString(s) ==
    \E i \in 1..Len(s) :
        /\ s[i] = Quote
        /\ \A j \in 1..Len(s) : s[j] = Quote => j = i
        /\ \A k \in CommentStarts(s) : k > i

\* C3: scanning an input with an opening '"' and no closing '"' fails with a
\* lexical error; it neither panics nor returns a token sequence.
C3_UnterminatedStringIsError ==
    (pc = "done" /\ UnterminatedString(input)) => outcome = "error"

NotSpace(c) == c \notin Space

\* operand, sign, digit with any white space around the sign
SignExpr(s) ==
    LET core == SelectSeq(s, NotSpace)
    IN  /\ Len(core) = 3
        /\ core[1] \in AlphaNum /\ core[2] \in {"+", "-"} /\ core[3] \in Digit
        /\ s[1] = core[1] /\ s[Len(s)] = core[3]

\* C4: the numeric-literal rule never consumes a sign.  Scanning
\* `d1 s d2` (s one of + -, any white space around it, none included)
\* yields the sign as its own Plus / Minus token between the two operand
\* tokens, and no Number token's lexeme begins with + or -.
C4_NumberTakesNoSign ==
    pc = "done" =>
        /\ \A i \in 1..Len(tokens) :
               tokens[i].token_type = "Number" =>
                   tokens[i].lexeme[1] \notin {"+", "-"}
        /\ SignExpr(input) =>
               LET core == SelectSeq(input, NotSpace)
               IN  TypesOf(WithoutEof(tokens)) =
                       <<ExpectedType(<<core[1]>>),
                         OperatorType(<<core[2]>>), "Number">>

\* the parts of an input `P // C` with more lines R after the comment
CommentAt(s) == CHOOSE i \in CommentStarts(s) : \A j \in CommentStarts(s) : i <= j
CommentPrefix(s) == Take(s, CommentAt(s) - 1)
CommentBody(s) ==
    LET after == Drop(s, CommentAt(s) + 1)
    IN  Take(after, SpanLen(after, AllChars \ {Newline}))
CommentRest(s) ==
    LET after == Drop(s, CommentAt(s) + 1)
    IN  Drop(after, SpanLen(after, AllChars \ {Newline}))

\* the text scans to tokens with nothing left
Scannable(s) == many0(s, <<>>).ok /\ multispace0(many0(s, <<>>).rest).rest = <<>>

\* an input `P // C` followed by comment-free lines, P and the lines
\* scannable, no string literal involved
CommentLine(s) ==
    /\ CommentStarts(s) # {}
    /\ \A i \in 1..Len(s) : s[i] # Quote
    /\ CommentStarts(CommentRest(s)) = {}
    /\ Scannable(CommentPrefix(s))
    /\ Scannable(CommentRest(s))

\* C5: a line comment is recognised at any position.  For an input
\* `P // C` scan emits the tokens of P, then nothing or one LineComment
\* token carrying C, then the tokens of the lines after the comment; the
\* comment is never scanned as Slash, Slash and the tokens of C, and neither
\* the tokens of P nor the lines after the comment are dropped.
C5_CommentAnywhere ==
    (pc = "done" /\ CommentLine(input)) =>
        LET before == many0(CommentPrefix(input), <<>>).out
            after  == many0(CommentRest(input), <<>>).out
            got    == WithoutEof(tokens)
        IN  \/ /\ TypesOf(got) = TypesOf(before) \o TypesOf(after)
               /\ LexemesOf(got) = LexemesOf(before) \o LexemesOf(after)
            \/ /\ TypesOf(got) =
                      TypesOf(before) \o <<"LineComment">> \o TypesOf(after)
               /\ LexemesOf(got) =
                      LexemesOf(before) \o <<CommentBody(input)>> \o LexemesOf(after)

\* C6: operator tokenization is longest-match over the full operator set.
\* Each of ! != = == > >= < <= standing alone scans to exactly one token of
\* the matching variant; a lone ! < > is tokenized, not rejected or dropped.
C6_OperatorLongestMatch ==
    (pc = "done" /\ Trim(input) \in ComparisonLexemes) =>
        /\ TypesOf(WithoutEof(tokens)) = <<OperatorType(Trim(input))>>
        /\ LexemesOf(WithoutEof(tokens)) = <<Trim(input)>>

VarLine == <<"v", "a", "r", " ", "x", " ", "=", " ", "1", "0", ";">>

\* C7: scanning `var x = 10;` yields exactly Var, Identifier("x"), Equal,
\* Number(10), Semicolon; a line of well-formed lexemes separated by spaces
\* or tabs yields exactly one token per lexeme, in source order, and no
\* other token.
C7_OneTokenPerLexeme ==
    pc = "done" =>
        /\ input = VarLine =>
               /\ TypesOf(tokens) =
                      <<"Var", "Identifier", "Equal", "Number", "Semicolon">>
               /\ tokens[2].lexeme = <<"x">>
               /\ tokens[4].lexeme = <<"1", "0">>
        /\ LexemeLine(input) => TypesOf(tokens) = ExpectedTypes(input)

\* C12: every token sequence scan_line returns, for any input whatsoever
\* (empty, whitespace only, a comment-only line, a line with an unrecognized
\* remainder), ends with exactly one Eof token, and Eof occurs at no other
\* index of the sequence.
C12_EndsWithOneEof ==
    (pc = "done" /\ outcome = "returned") =>
        /\ Len(tokens) >= 1
        /\ tokens[Len(tokens)].token_type = "Eof"
        /\ \A i \in 1..(Len(tokens) - 1) : tokens[i].token_type # "Eof"

(***************************************************************************)
(* f64 values.  A value is sgn * n / d with n, d >= 0 in lowest terms:     *)
(* d = 0 with n = 1 is an infinity, n = d = 0 is NaN, n = 0 with d = 1 is  *)
(* a signed zero.  The arithmetic is exact: f64 rounding is not modelled,  *)
(* and within the bounds of the model no rounded result feeds a further    *)
(* operation.                                                              *)
(***************************************************************************)
RECURSIVE Gcd(_, _)
Gcd(a, b) == IF b = 0 THEN a ELSE Gcd(b, a % b)

NaN == [sgn |-> 1, n |-> 0, d |-> 0]
Norm(sgn, n, d) ==
    IF n = 0 /\ d = 0 THEN NaN
    ELSE [sgn |-> sgn, n |-> n \div Gcd(n, d), d |-> d \div Gcd(n, d)]

F(i) == IF i < 0 THEN Norm(-1, -i, 1) ELSE Norm(1, i, 1)
IsNaN(x) == x.n = 0 /\ x.d = 0
IsInf(x) == x.n # 0 /\ x.d = 0

\* -x
FNeg(x) == IF IsNaN(x) THEN NaN ELSE [x EXCEPT !.sgn = -x.sgn]

\* x + y
FAdd(x, y) ==
    IF IsNaN(x) \/ IsNaN(y) THEN NaN
    ELSE IF IsInf(x) THEN (IF IsInf(y) /\ y.sgn # x.sgn THEN NaN ELSE x)
    ELSE IF IsInf(y) THEN y
    ELSE LET a == x.sgn * x.n * y.d + y.sgn * y.n * x.d
         IN  IF a = 0
             THEN Norm(IF x.sgn = -1 /\ y.sgn = -1 THEN -1 ELSE 1, 0, 1)
             ELSE IF a < 0 THEN Norm(-1, -a, x.d * y.d)
             ELSE Norm(1, a, x.d * y.d)

\* x - y
FSub(x, y) == FAdd(x, FNeg(y))

\* x * y
FMul(x, y) ==
    IF IsNaN(x) \/ IsNaN(y) THEN NaN
    ELSE Norm(x.sgn * y.sgn, x.n * y.n, x.d * y.d)

\* x / y: a division by zero gives an infinity, or NaN for 0 / 0
FDiv(x, y) ==
    IF IsNaN(x) \/ IsNaN(y) THEN NaN
    ELSE Norm(x.sgn * y.sgn, x.n * y.d, x.d * y.n)

\* x == y
FEq(x, y) ==
    /\ ~IsNaN(x) /\ ~IsNaN(y)
    /\ IF IsInf(x) \/ IsInf(y) THEN x = y
       ELSE x.sgn * x.n * y.d = y.sgn * y.n * x.d

\* x < y
FLt(x, y) ==
    /\ ~IsNaN(x) /\ ~IsNaN(y)
    /\ IF IsInf(x) \/ IsInf(y)
       THEN x # y /\ ((IsInf(x) /\ x.sgn = -1) \/ (IsInf(y) /\ y.sgn = 1))
       ELSE x.sgn * x.n * y.d < y.sgn * y.n * x.d

\* x <= y
FLe(x, y) == FLt(x, y) \/ FEq(x, y)

DigitChar(i) == <<"0", "1", "2", "3", "4", "5", "6", "7", "8", "9">>[i + 1]

RECURSIVE DecimalDigits(_)
DecimalDigits(i) ==
    IF i < 10 THEN <<DigitChar(i)>>
    ELSE DecimalDigits(i \div 10) \o <<DigitChar(i % 10)>>

RECURSIVE Pow(_, _)
Pow(b, k) == IF k = 0 THEN 1 ELSE b * Pow(b, k - 1)

\* the digits of i, padded with leading zeros to k places
Padded(i, k) ==
    LET ds == DecimalDigits(i)
    IN  [j \in 1..(k - Len(ds)) |-> "0"] \o ds

\* f64::to_string: the shortest decimal text of the value.  Defined for the
\* values whose denominator is a power of two, which have a finite decimal
\* expansion.
NumberToString(x) ==
    IF IsNaN(x) THEN <<"N", "a", "N">>
    ELSE (IF x.sgn = -1 THEN <<"-">> ELSE <<>>) \o
         (IF IsInf(x) THEN <<"i", "n", "f">>
          ELSE IF x.d = 1 THEN DecimalDigits(x.n)
          ELSE LET k == CHOOSE e \in 1..20 : Pow(2, e) = x.d
                   scaled == x.n * Pow(5, k)
               IN  DecimalDigits(scaled \div Pow(10, k)) \o <<".">> \o
                   Padded(scaled % Pow(10, k), k))

\* bool::to_string
BoolToString(b) ==
    IF b THEN <<"t", "r", "u", "e">> ELSE <<"f", "a", "l", "s", "e">>

(***************************************************************************)
(* Expression nodes.                                                       *)
(***************************************************************************)
NumberLiteral(x) == [kind |-> "Number", num |-> x]
BooleanLiteral(b) == [kind |-> "Boolean", bool |-> b]
StringLiteral(s) == [kind |-> "String", str |-> s]
Binary(lhs, op, rhs) == [kind |-> "Binary", lhs |-> lhs, op |-> op, rhs |-> rhs]
Logical(left, operator, right) ==
    [kind |-> "Logical", left |-> left, operator |-> operator, right |-> right]
Unary(operator, right) == [kind |-> "Unary", operator |-> operator, right |-> right]
Grouping(e) == [kind |-> "Grouping", expr |-> e]

\* unreachable!(): the process aborts
Panic == [kind |-> "panic"]

\* Binary::eval's arms as they would be with a guarded division: a zero
\* divisor is a failure instead of an infinity or NaN
BinaryApplyGuarded(op, l, r) ==
    CASE op = "Plus"  -> NumberLiteral(FAdd(l, r))
      [] op = "Minus" -> NumberLiteral(FSub(l, r))
      [] op = "Star"  -> NumberLiteral(FMul(l, r))
      [] op = "Slash" -> (IF r.n = 0 /\ r.d = 1 THEN Panic
                          ELSE NumberLiteral(FDiv(l, r)))
      [] OTHER        -> Panic

\* the arms of Binary::eval's match on the operator
BinaryApply(op, l, r) ==
    CASE op = "Plus"  -> NumberLiteral(FAdd(l, r))
      [] op = "Minus" -> NumberLiteral(FSub(l, r))
      [] op = "Star"  -> NumberLiteral(FMul(l, r))
      [] op = "Slash" -> NumberLiteral(FDiv(l, r))
      [] OTHER        -> Panic

\* the arms of Logical::eval's match on the operator
LogicalApply(op, l, r) ==
    CASE op = "BangEqual"    -> BooleanLiteral(~FEq(l, r))
      [] op = "EqualEqual"   -> BooleanLiteral(FEq(l, r))
      [] op = "Greater"      -> BooleanLiteral(FLt(r, l))
      [] op = "GreaterEqual" -> BooleanLiteral(FLe(r, l))
      [] op = "Less"         -> BooleanLiteral(FLe(l, r))
      [] op = "LessEqual"    -> BooleanLiteral(FLe(l, r))
      [] OTHER               -> Panic

\* the arms of Unary::eval's match on the operand; a String operand has no
\* arm at all and is taken to abort like the other unsupported operands
UnaryApply(op, right) ==
    CASE right.kind = "Number" ->
             (IF op = "Minus" THEN NumberLiteral(FNeg(right.num)) ELSE Panic)
      [] right.kind = "Boolean" ->
             (IF op = "Bang" THEN BooleanLiteral(~right.bool) ELSE Panic)
      [] OTHER -> Panic

\* Expr::eval: a new literal node, or the abort of the process
RECURSIVE eval(_)
eval(e) ==
    CASE e.kind = "Number"  -> NumberLiteral(e.num)
      [] e.kind = "Boolean" -> BooleanLiteral(e.bool)
      [] e.kind = "String"  -> StringLiteral(e.str)
      [] e.kind = "Grouping" -> eval(e.expr)
      [] e.kind = "Binary" ->
             LET lhs == eval(e.lhs)
                 rhs == eval(e.rhs)
             IN  IF lhs.kind = "panic" \/ rhs.kind = "panic" THEN Panic
                 ELSE IF lhs.kind = "Number" /\ rhs.kind = "Number"
                 THEN BinaryApply(e.op, lhs.num, rhs.num)
                 ELSE Panic
      [] e.kind = "Logical" ->
             LET left  == eval(e.left)
                 right == eval(e.right)
             IN  IF left.kind = "panic" \/ right.kind = "panic" THEN Panic
                 ELSE IF left.kind = "Number" /\ right.kind = "Number"
                 THEN LogicalApply(e.operator, left.num, right.num)
                 ELSE Panic
      [] e.kind = "Unary" ->
             LET right == eval(e.right)
             IN  IF right.kind = "panic" THEN Panic
                 ELSE UnaryApply(e.operator, right)

\* a printed text, or the abort of the process
Printed(t) == [ok |-> TRUE, text |-> t]
PrintPanic == [ok |-> FALSE, text |-> <<>>]

\* op_str of Binary::print
BinaryOpStr(op) ==
    CASE op = "Plus"  -> Printed(<<"+">>)
      [] op = "Minus" -> Printed(<<"-">>)
      [] op = "Star"  -> Printed(<<"*">>)
      [] op = "Slash" -> Printed(<<"/">>)
      [] OTHER        -> PrintPanic

\* op_str of Logical::print
LogicalOpStr(op) ==
    CASE op = "EqualEqual"   -> Printed(<<"=", "=">>)
      [] op = "GreaterEqual" -> Printed(<<">", "=">>)
      [] op = "LessEqual"    -> Printed(<<"<", "=">>)
      [] op = "Greater"      -> Printed(<<">">>)
      [] op = "Less"         -> Printed(<<"<">>)
      [] OTHER               -> PrintPanic

\* op_str of Unary::print
UnaryOpStr(op) ==
    CASE op = "Bang"  -> Printed(<<"!">>)
      [] op = "Minus" -> Printed(<<"-">>)
      [] OTHER        -> PrintPanic

\* {:?} of a &str free of characters to escape: the text in double quotes
DebugStr(t) == <<Quote>> \o t \o <<Quote>>

\* Expr::print
RECURSIVE print(_)
print(e) ==
    CASE e.kind = "Number"  -> Printed(NumberToString(e.num))
      [] e.kind = "Boolean" -> Printed(BoolToString(e.bool))
      [] e.kind = "String"  -> Printed(e.str)
      [] e.kind = "Grouping" ->
             LET inner == print(e.expr)
             IN  IF ~inner.ok THEN PrintPanic
                 ELSE Printed(<<"(">> \o inner.text \o <<")">>)
      [] e.kind = "Binary" ->
             LET op  == BinaryOpStr(e.op)
                 lhs == print(e.lhs)
                 rhs == print(e.rhs)
             IN  IF ~op.ok \/ ~lhs.ok \/ ~rhs.ok THEN PrintPanic
                 ELSE Printed(lhs.text \o <<" ">> \o op.text \o <<" ">> \o rhs.text)
      [] e.kind = "Logical" ->
             LET op    == LogicalOpStr(e.operator)
                 left  == print(e.left)
                 right == print(e.right)
             IN  IF ~op.ok \/ ~left.ok \/ ~right.ok THEN PrintPanic
                 ELSE Printed(left.text \o <<" ">> \o DebugStr(op.text) \o <<" ">> \o
                              right.text)
      [] e.kind = "Unary" ->
             LET op    == UnaryOpStr(e.operator)
                 right == print(e.right)
             IN  IF ~op.ok \/ ~right.ok THEN PrintPanic
                 ELSE Printed(op.text \o <<" ">> \o right.text)

(***************************************************************************)
(* The expression trees.                                                   *)
(***************************************************************************)
BinaryOps == {"Plus", "Minus", "Star", "Slash"}
LogicalOps == {"BangEqual", "EqualEqual", "Greater", "GreaterEqual", "Less",
               "LessEqual"}
UnaryOps == {"Bang", "Minus"}

Numbers == {F(0), F(1), F(2)}

Leaves ==
    {NumberLiteral(x) : x \in Numbers} \cup
    {BooleanLiteral(b) : b \in BOOLEAN} \cup
    {StringLiteral(<<"a">>)}

\* the trees of depth at most k in which every two-operand node has a leaf
\* on one side
RECURSIVE Trees(_)
Trees(k) ==
    IF k = 0 THEN Leaves
    ELSE LET sub   == Trees(k - 1)
             pairs == (sub \X Leaves) \cup (Leaves \X sub)
         IN  sub \cup
             {Binary(p[1], op, p[2]) : p \in pairs, op \in BinaryOps} \cup
             {Logical(p[1], op, p[2]) : p \in pairs, op \in LogicalOps} \cup
             {Unary(op, e) : op \in UnaryOps, e \in sub} \cup
             {Grouping(e) : e \in sub}

\* the tree of test_tree: - (1 / 2) - 2
TestTree ==
    Binary(Unary("Minus",
                 Grouping(Binary(NumberLiteral(F(1)), "Slash", NumberLiteral(F(2))))),
           "Minus", NumberLiteral(F(2)))

\* the tree of build_ast, with 2 and 1 for its literals 2.3 and 1.2
BuiltTree == Binary(NumberLiteral(F(2)), "Plus", NumberLiteral(F(1)))

\* arithmetic whose operands are sub-trees: (a op1 b) op2 - c
NestedTrees ==
    {Binary(Grouping(Binary(NumberLiteral(a), op1, NumberLiteral(b))), op2,
            Unary("Minus", NumberLiteral(c))) :
        a \in Numbers, b \in Numbers, c \in Numbers,
        op1 \in BinaryOps, op2 \in BinaryOps}

Exprs == Trees(MaxDepth) \cup {TestTree, BuiltTree} \cup NestedTrees

EvalInit ==
    /\ expr \in Exprs
    /\ value = NoValue
    /\ text = NoText
    /\ pc = "tree"
    /\ input = <<>>
    /\ tokens = <<>>
    /\ remaining = <<>>
    /\ outcome = "none"

\* a caller evaluates the tree
eval_tree ==
    /\ pc = "tree"
    /\ value' = eval(expr)
    /\ pc' = "evaluated"
    /\ UNCHANGED <<input, tokens, remaining, outcome, expr, text>>

\* a caller prints the tree, as test_tree does
print_tree ==
    /\ pc = "tree"
    /\ text' = print(expr)
    /\ pc' = "printed"
    /\ UNCHANGED <<input, tokens, remaining, outcome, expr, value>>

EvalNext == eval_tree \/ print_tree

EvalSpec == EvalInit /\ [][EvalNext]_vars

(***************************************************************************)
(* The evaluator's contract, claim by claim.                               *)
(***************************************************************************)

\* the relational test an operator's symbol stands for
Relation(op, a, b) ==
    CASE op = "EqualEqual"   -> FEq(a, b)
      [] op = "BangEqual"    -> ~FEq(a, b)
      [] op = "Greater"      -> FLt(b, a)
      [] op = "GreaterEqual" -> FLe(b, a)
      [] op = "Less"         -> FLt(a, b)
      [] op = "LessEqual"    -> FLe(a, b)

\* C8: for Numbers a, b and every comparison operator op,
\* evaluate(Logical(NumberLiteral(a), op, NumberLiteral(b))) is the Boolean
\* of the relational test of op's own symbol: <= is a <= b and < is a < b,
\* so they differ exactly when a = b.
C8_ComparisonMatchesSymbol ==
    (/\ pc = "evaluated"
     /\ expr.kind = "Logical"
     /\ expr.left.kind = "Number"
     /\ expr.right.kind = "Number") =>
        value = BooleanLiteral(Relation(expr.operator, expr.left.num, expr.right.num))

\* the operands of an operator node evaluate to literals the node's operator
\* does not support
TypeMismatch(e) ==
    \/ /\ e.kind = "Binary"
       /\ eval(e.lhs).kind # "panic" /\ eval(e.rhs).kind # "panic"
       /\ ~(eval(e.lhs).kind = "Number" /\ eval(e.rhs).kind = "Number")
    \/ /\ e.kind = "Logical"
       /\ eval(e.left).kind # "panic" /\ eval(e.right).kind # "panic"
       /\ ~(eval(e.left).kind = "Number" /\ eval(e.right).kind = "Number")
    \/ /\ e.kind = "Unary"
       /\ eval(e.right).kind # "panic"
       /\ \/ e.operator = "Minus" /\ eval(e.right).kind # "Number"
          \/ e.operator = "Bang" /\ eval(e.right).kind # "Boolean"

\* C9: evaluating an operator node whose evaluated operands the operator
\* does not support (String + Number, - on a non-Number, ! on a non-Boolean)
\* returns a typed type-mismatch error value to the caller; it never aborts
\* the process and never produces a Value.
C9_TypeMismatchIsErrorValue ==
    (pc = "evaluated" /\ TypeMismatch(expr)) => value.kind = "TypeMismatch"

\* the bare symbol of an operator
Symbol(op) ==
    CASE op = "Plus"         -> <<"+">>
      [] op = "Minus"        -> <<"-">>
      [] op = "Star"         -> <<"*">>
      [] op = "Slash"        -> <<"/">>
      [] op = "Bang"         -> <<"!">>
      [] op = "EqualEqual"   -> <<"=", "=">>
      [] op = "BangEqual"    -> <<"!", "=">>
      [] op = "Greater"      -> <<">">>
      [] op = "GreaterEqual" -> <<">", "=">>
      [] op = "Less"         -> <<"<">>
      [] op = "LessEqual"    -> <<"<", "=">>

\* the structural rendering of a tree: `lhs op rhs`, `(inner)`,
\* `op operand`, and a literal's own text
RECURSIVE Rendering(_)
Rendering(e) ==
    CASE e.kind = "Number"  -> NumberToString(e.num)
      [] e.kind = "Boolean" -> BoolToString(e.bool)
      [] e.kind = "String"  -> e.str
      [] e.kind = "Grouping" -> <<"(">> \o Rendering(e.expr) \o <<")">>
      [] e.kind = "Binary" ->
             Rendering(e.lhs) \o <<" ">> \o Symbol(e.op) \o <<" ">> \o Rendering(e.rhs)
      [] e.kind = "Logical" ->
             Rendering(e.left) \o <<" ">> \o Symbol(e.operator) \o <<" ">> \o
             Rendering(e.right)
      [] e.kind = "Unary" -> Symbol(e.operator) \o <<" ">> \o Rendering(e.right)

\* C10: render is total and structural over every tree of the seven node
\* kinds with their valid operators: Binary and Logical render as
\* `lhs op rhs` with op's bare symbol, Grouping as `(inner)`, Unary as its
\* symbol, one space and the operand, literals as their own text; render
\* never fails for a valid operator.
C10_RenderStructural ==
    pc = "printed" => text.ok /\ text.text = Rendering(expr)

\* a tree that denotes a Number: number literals under Grouping, unary
\* minus and the four arithmetic operators
RECURSIVE NumericTree(_)
NumericTree(e) ==
    CASE e.kind = "Number"   -> TRUE
      [] e.kind = "Grouping" -> NumericTree(e.expr)
      [] e.kind = "Unary"    -> e.operator = "Minus" /\ NumericTree(e.right)
      [] e.kind = "Binary"   ->
             e.op \in BinaryOps /\ NumericTree(e.lhs) /\ NumericTree(e.rhs)
      [] OTHER               -> FALSE

\* a op b in IEEE arithmetic
Arith(op, a, b) ==
    CASE op = "Plus"  -> FAdd(a, b)
      [] op = "Minus" -> FSub(a, b)
      [] op = "Star"  -> FMul(a, b)
      [] op = "Slash" -> FDiv(a, b)

\* the Number a numeric tree denotes, operands first
RECURSIVE NumberValue(_)
NumberValue(e) ==
    CASE e.kind = "Number"   -> e.num
      [] e.kind = "Grouping" -> NumberValue(e.expr)
      [] e.kind = "Unary"    -> FNeg(NumberValue(e.right))
      [] e.kind = "Binary"   ->
             Arith(e.op, NumberValue(e.lhs), NumberValue(e.rhs))

IsZero(x) == x.n = 0 /\ x.d = 1

\* a / b for a zero b: NaN for a zero or NaN a, else the infinity whose sign
\* is the product of the operands' signs
QuotientByZero(a, b) ==
    IF IsNaN(a) \/ IsZero(a) THEN NaN
    ELSE [sgn |-> a.sgn * b.sgn, n |-> 1, d |-> 0]

\* C11: for Numbers a, b and every op of + - * /, evaluating
\* Binary(a, op, b) yields the Number a op b and never an error; a division
\* by zero yields an ordinary Number (an infinity or NaN), not a failure;
\* and the same holds when the operands are sub-trees (Grouping, Unary,
\* Binary) that evaluate to Numbers, the children being evaluated first.
C11_ArithmeticOnNumbers ==
    (pc = "evaluated" /\ expr.kind = "Binary" /\ NumericTree(expr)) =>
        /\ value.kind = "Number"
        /\ value.num = Arith(expr.op, NumberValue(expr.lhs), NumberValue(expr.rhs))
        /\ (expr.op = "Slash" /\ IsZero(NumberValue(expr.rhs))) =>
               value.num = QuotientByZero(NumberValue(expr.lhs),
                                          NumberValue(expr.rhs))

\* C11 happens: (1 - 0) / - 0, a division of a sub-tree by a sub-tree that
\* is a zero, has evaluated to the negative infinity
C11_DivisionByZeroEvaluated ==
    /\ pc = "evaluated"
    /\ expr = Binary(Grouping(Binary(NumberLiteral(F(1)), "Minus",
                                     NumberLiteral(F(0)))),
                     "Slash", Unary("Minus", NumberLiteral(F(0))))
    /\ value = NumberLiteral([sgn |-> -1, n |-> 1, d |-> 0])

====
